---- MODULE Spec2Model ----
(***************************************************************************)
(* Model of extract-audio (src/src/main.rs): the batch loop of main, one   *)
(* call of process_file per input table, the parallel row tasks of the     *)
(* rayon pool, and write_file with its check-then-create name resolution.  *)
(*                                                                         *)
(* Option<T> is a sequence of length 0 (None) or 1 (Some).  A path is the  *)
(* sequence of its components; the last component of an output path is a   *)
(* file name [prefix, base]: prefix is <<>> for a bare name and            *)
(* <<timestamp, counter>> for a name built by the format! of write_file,   *)
(* base is <<stem, extension>>.  File contents are byte sequences.         *)
(***************************************************************************)
EXTENDS Integers, Sequences, FiniteSets, TLC

\* ---------------------------------------------------------------- bounds
MaxRows == 2
MaxFiles == 2
MaxThreads == 2
MaxRuns == 2
MaxNameLen == 4

\* ------------------------------------------------------------- vocabulary
None == <<>>
Some(v) == <<v>>
IsSome(o) == Len(o) = 1
Unwrap(o) == o[1]

OutputDir == "out"
\* SystemTime::now() as microseconds: the wall clock is not monotonic, so two
\* readings may be equal or in either order; two values show all three cases
Timestamps == {1, 2}

RowA == [path |-> Some(<<"a", <<"x", "wav">> >>), bytes |-> Some(<<1, 2, 3>>),
         transcription |-> Some("hi")]
RowB == [path |-> Some(<<"b", <<"x", "wav">> >>), bytes |-> Some(<<4, 5>>),
         transcription |-> Some("bye")]
RowNoText == [path |-> Some(<<"a", <<"y", "wav">> >>), bytes |-> Some(<<6>>),
              transcription |-> None]
RowNoBytes == [path |-> Some(<<"a", <<"y", "wav">> >>), bytes |-> None,
               transcription |-> Some("hi")]
RowValues == {RowA, RowB, RowNoText, RowNoBytes}

SeqsUpTo(S, n) == UNION {[1..k -> S] : k \in 0..n}

AllOk == [path |-> "ok", bytes |-> "ok", transcription |-> "ok"]
GoodTable(rows) == [decoded |-> TRUE, columns |-> AllOk, rows |-> rows]
BadTables ==
  { [decoded |-> FALSE, columns |-> AllOk, rows |-> <<>>],
    [decoded |-> TRUE, columns |-> [AllOk EXCEPT !.transcription = "absent"],
     rows |-> <<[RowA EXCEPT !.transcription = None]>>],
    [decoded |-> TRUE, columns |-> [AllOk EXCEPT !.bytes = "wrong_type"],
     rows |-> <<RowA>>] }
Tables == {GoodTable(rows) : rows \in SeqsUpTo(RowValues, MaxRows)} \cup BadTables

RECURSIVE SumRows(_)
SumRows(ts) == IF ts = <<>> THEN 0 ELSE Len(Head(ts).rows) + SumRows(Tail(ts))

Inputs == {i \in SeqsUpTo(Tables, MaxFiles) : Len(i) >= 1 /\ SumRows(i) <= MaxRows}

BareName(base) == [prefix |-> <<>>, base |-> base]

\* a directory entry (or the single input file): whether it is a regular file,
\* its extension, and the table the Table Provider yields for it
ParquetFile(t) == [is_file |-> TRUE, ext |-> "parquet", table |-> t]
\* the inputs of the extraction engine: regular .parquet files only
EngineEntries == {[k \in DOMAIN i |-> ParquetFile(i[k])] : i \in Inputs}
\* the inputs of the batch loop: any kind of entry, with small tables
MainTables == {GoodTable(<<RowA>>), GoodTable(<<>>),
               [decoded |-> FALSE, columns |-> AllOk, rows |-> <<>>]}
MainEntryValues ==
  {[is_file |-> TRUE, ext |-> e, table |-> t] :
     e \in {"parquet", "arrow"}, t \in MainTables}
  \cup {[is_file |-> TRUE, ext |-> "txt", table |-> GoodTable(<<RowA>>)],
        [is_file |-> FALSE, ext |-> "parquet", table |-> GoodTable(<<RowA>>)]}
MainEntries == {e \in SeqsUpTo(MainEntryValues, MaxFiles) : Len(e) >= 1}
Formats == {"Parquet", "Arrow"}
MetadataPath == "metadata.csv"

VARIABLES
  mode,             \* "file" (args.input), "dir" (args.input_dir) or "none"
  inputOk,          \* input_file.is_file() / input_dir.is_dir()
  format,           \* args.format
  threads,          \* args.threads, the size of the rayon pool
  metadata_file,    \* args.metadata_file, an Option
  entries,          \* the input file, or the entries read_dir yields, in order
  files_to_process, \* indices of the entries main hands to process_file
  run,              \* which process this is (1 = first run, 2 = the rerun)
  pc,               \* position of main
  fileIdx,          \* index of the next (or current) input file
  disk,             \* output directory: path -> content
  counter,          \* UNIQUE_FILENAME_COUNTER
  metadata_records, \* the Mutex<Vec<(String, String)>>
  total_rows,       \* total_rows / rows reported by main
  records,          \* process_file: the rows that passed filter_map
  task,             \* process_file: state of each row task of the second par_iter
  errlog,           \* files whose error main printed to stderr
  results,          \* history: what process_file returned for each file so far
  log,              \* history: one entry per call of File::create
  owners,           \* history: the <<file, row>> each metadata record came from
  disk0,            \* history: the disk when this run started
  output_dir_created, \* create_dir_all(output) has returned Ok
  written,          \* history: the <<file, row>> whose write_all has returned
  sink,             \* the metadata file: None, or Some(the records written)
  src_name,         \* file-name derivation: the file name of a row's source path
  derived           \* file-name derivation: None, or Some(audio_filename_str)

\* the parsed command line, fixed once main has started
args == <<mode, inputOk, format, threads, metadata_file, entries>>
\* the variables of the file-name derivation
namev == <<src_name, derived>>

vars == <<args, files_to_process, run, pc, fileIdx, disk, counter, metadata_records,
          total_rows, records, task, errlog, results, log, owners, disk0,
          output_dir_created, written,
          sink, namev>>

\* the tables the Table Provider yields for the files handed to process_file
input == [k \in DOMAIN files_to_process |-> entries[files_to_process[k]].table]

\* ------------------------------------------------------------ path helpers
\* Path::join, Path::parent, Path::file_name on component sequences
Join(dir, name) == Append(dir, name)
Parent(p) == SubSeq(p, 1, Len(p) - 1)
FileName(p) == p[Len(p)]

\* format!("{}.{}", file_stem, extension) of the last component of the source path
AudioFilenameStr(path_val) == BareName(FileName(path_val))
AudioFilename(path_val) == Join(<<OutputDir>>, AudioFilenameStr(path_val))

\* format!("{timestamp}-{counter:04}-{original_name}")
TimestampedName(timestamp, ctr, original_name) ==
  [prefix |-> <<timestamp, ctr>> \o original_name.prefix, base |-> original_name.base]

\* the target write_file chooses when the candidate exists
RenamedTarget(filename, timestamp, ctr) ==
  Join(Parent(filename), TimestampedName(timestamp, ctr, FileName(filename)))

\* try_exists
Exists(d, p) == p \in DOMAIN d

\* File::create: the file is created, or truncated when it exists
CreateFile(d, p) == [q \in DOMAIN d \cup {p} |-> IF q = p THEN <<>> ELSE d[q]]

\* write_all through a handle opened at offset 0
WriteAt0(old, data) == data \o SubSeq(old, Len(data) + 1, Len(old))
WriteAll(d, p, data) == [d EXCEPT ![p] = WriteAt0(d[p], data)]

\* --------------------------------------------------------- process_file
\* mutant: the type of the bytes column is not checked before the rows are run
Validate_NoBytesCheck(t) ==
  IF ~t.decoded THEN "decode"
  ELSE IF t.columns.path # "ok" THEN "path"
  ELSE IF t.columns.transcription # "ok" THEN "transcription"
  ELSE "ok"

\* lines 140-150: decoding, then the three column look-ups in order
Validate(t) ==
  IF ~t.decoded THEN "decode"
  ELSE IF t.columns.path # "ok" THEN "path"
  ELSE IF t.columns.bytes # "ok" THEN "bytes"
  ELSE IF t.columns.transcription # "ok" THEN "transcription"
  ELSE "ok"

\* the filter_map of lines 154-167: rows with the three values present
HasAllFields(r) == IsSome(r.path) /\ IsSome(r.transcription) /\ IsSome(r.bytes)
FilterRows(rows) == SelectSeq(rows, HasAllFields)

\* df.height()
NumRows(t) == Len(t.rows)

\* what process_file returns on success (line 196)
ReturnedCount(t) == NumRows(t)

QueuedTask(r) == [pc |-> "queued", target |-> AudioFilename(Unwrap(r.path))]
InFlight == {i \in DOMAIN task : task[i].pc \in {"create", "write"}}
Terminated(i) == task[i].pc \in {"done", "failed"}
CurrentTable == input[fileIdx]

\* the map closure's result for row i (lines 185-190)
FinalName(i) == FileName(task[i].target)

\* mutant: the records of renamed files are left out
LocalMetadata_BareOnly ==
  LET idx == [i \in DOMAIN records |-> i]
      IsBare(i) == FinalName(i).prefix = <<>>
      kept == SelectSeq(idx, IsBare)
  IN  [k \in DOMAIN kept |->
         <<FinalName(kept[k]), Unwrap(records[kept[k]].transcription)>>]

\* mutant: the records are collected in the reverse of the row order
LocalMetadata_Reversed ==
  [i \in DOMAIN records |->
     <<FinalName(Len(records) + 1 - i),
       Unwrap(records[Len(records) + 1 - i].transcription)>>]

LocalMetadata == [i \in DOMAIN records |->
                    <<FinalName(i), Unwrap(records[i].transcription)>>]

\* the state when main starts, for a given choice of command lines and inputs
InitWith(EntrySeqs, FormatSet, MetadataFiles, Disks) ==
  /\ mode \in {"file", "dir", "none"}
  /\ inputOk \in BOOLEAN
  /\ format \in FormatSet
  /\ threads \in 1..MaxThreads
  /\ metadata_file \in MetadataFiles
  /\ entries \in EntrySeqs
  /\ (mode = "file" => Len(entries) = 1)
  /\ files_to_process = <<>>
  /\ run = 1
  /\ pc = "start"
  /\ fileIdx = 1
  /\ disk \in Disks
  /\ disk0 = disk
  /\ output_dir_created = FALSE
  /\ counter = 0
  /\ metadata_records = <<>>
  /\ owners = <<>>
  /\ total_rows = 0
  /\ records = <<>>
  /\ task = <<>>
  /\ errlog = <<>>
  /\ results = <<>>
  /\ log = {}
  /\ written = {}
  /\ sink = None
  /\ src_name = <<>>
  /\ derived = None

Init == InitWith(EngineEntries, {"Parquet"}, {Some(MetadataPath)}, {<<>>})
InitMain == InitWith(MainEntries, Formats, {None, Some(MetadataPath)}, {<<>>})

\* an output directory that already holds out/x.wav when the process starts
ExistingDisk == [p \in {AudioFilename(<<"a", <<"x", "wav">> >>)} |-> <<0>>]
\* inputs whose rows all name a/x.wav, so that every row after the first
\* collides, and one file that cannot be decoded
CollideTables ==
  {GoodTable(rows) : rows \in SeqsUpTo({RowA}, MaxRows)}
  \cup {[decoded |-> FALSE, columns |-> AllOk, rows |-> <<>>]}
CollideEntries ==
  {[k \in DOMAIN i |-> ParquetFile(i[k])] :
     i \in {j \in SeqsUpTo(CollideTables, MaxFiles) :
              Len(j) >= 1 /\ SumRows(j) <= MaxRows}}
InitCollide ==
  InitWith(CollideEntries, {"Parquet"}, {Some(MetadataPath)}, {<<>>, ExistingDisk})

\* mutant: the input is processed without the is_file check
IsFile_Unchecked == TRUE

\* input_file.is_file() (line 223) and input_dir.is_dir() (line 233)
IsFile == inputOk
IsDir == inputOk

\* the filter of lines 243-249
Selected(entry) == entry.is_file /\ entry.ext \in {"parquet", "arrow"}
FilesToProcess ==
  LET idx == [k \in DOMAIN entries |-> k]
      Keep(k) == Selected(entries[k])
  IN  SelectSeq(idx, Keep)

\* neither --input nor --input-dir: process::exit(1) (lines 207-210)
ExitNoInput ==
  /\ pc = "start" /\ mode = "none"
  /\ pc' = "exit1"
  /\ UNCHANGED <<args, files_to_process, run, fileIdx, disk, counter, metadata_records,
                 total_rows, records, task, errlog, results, log, owners, disk0, output_dir_created,
                 written, sink, namev>>

\* --input is not a regular file: process::exit(1) (lines 223-226)
ExitNotFile ==
  /\ pc = "start" /\ mode = "file" /\ ~IsFile
  /\ pc' = "exit1"
  /\ output_dir_created' = TRUE
  /\ UNCHANGED <<args, files_to_process, run, fileIdx, disk, counter, metadata_records,
                 total_rows, records, task, errlog, results, log, owners, disk0,
                 written, sink, namev>>

\* --input-dir is not a directory: process::exit(1) (lines 233-239)
ExitNotDir ==
  /\ pc = "start" /\ mode = "dir" /\ ~IsDir
  /\ pc' = "exit1"
  /\ output_dir_created' = TRUE
  /\ UNCHANGED <<args, files_to_process, run, fileIdx, disk, counter, metadata_records,
                 total_rows, records, task, errlog, results, log, owners, disk0,
                 written, sink, namev>>

\* create_dir_all(output) fails and `?` returns the error from main (213-218)
CreateOutputDirFail ==
  /\ pc = "start" /\ mode # "none"
  /\ pc' = "err_output_dir"
  /\ UNCHANGED <<args, files_to_process, run, fileIdx, disk, counter, metadata_records,
                 total_rows, records, task, errlog, results, log, owners, disk0,
                 output_dir_created, written, sink, namev>>

\* single-input mode: the input file is the one file to process (lines 222-228)
OpenInput ==
  /\ pc = "start" /\ mode = "file" /\ IsFile
  /\ files_to_process' = <<1>>
  /\ pc' = "next"
  /\ output_dir_created' = TRUE
  /\ UNCHANGED <<args, run, fileIdx, disk, counter, metadata_records,
                 total_rows, records, task, errlog, results, log, owners, disk0,
                 written, sink, namev>>

\* directory mode: read_dir, filter, collect (lines 241-252)
ListDirectory ==
  /\ pc = "start" /\ mode = "dir" /\ IsDir
  /\ files_to_process' = FilesToProcess
  /\ pc' = "next"
  /\ output_dir_created' = TRUE
  /\ UNCHANGED <<args, run, fileIdx, disk, counter, metadata_records,
                 total_rows, records, task, errlog, results, log, owners, disk0,
                 written, sink, namev>>

\* mutant: the error of one file is propagated out of the loop, as `?` would
ProcessFileErrDir_Abort ==
  /\ pc = "next" /\ mode = "dir" /\ fileIdx <= Len(input)
  /\ Validate(CurrentTable) # "ok"
  /\ results' = Append(results, [ok |-> FALSE, rows |-> 0])
  /\ pc' = "failed"
  /\ UNCHANGED <<args, files_to_process, run, fileIdx, disk, counter, metadata_records,
                 total_rows, records, task, errlog, log, owners, disk0, output_dir_created,
                 written, sink, namev>>

\* process_file returns Err in directory mode: logged, the loop goes on (line 261)
ProcessFileErrDir ==
  /\ pc = "next" /\ mode = "dir" /\ fileIdx <= Len(input)
  /\ Validate(CurrentTable) # "ok"
  /\ errlog' = Append(errlog, fileIdx)
  /\ results' = Append(results, [ok |-> FALSE, rows |-> 0])
  /\ fileIdx' = fileIdx + 1
  /\ UNCHANGED <<args, files_to_process, run, pc, disk, counter, metadata_records,
                 total_rows, records, task, log, owners, disk0, output_dir_created,
                 written, sink, namev>>

\* mutant: single-input mode logs the error and goes on, as directory mode does
ProcessFileErrSingle_Logged ==
  /\ pc = "next" /\ mode = "file" /\ fileIdx <= Len(input)
  /\ Validate(CurrentTable) # "ok"
  /\ errlog' = Append(errlog, fileIdx)
  /\ results' = Append(results, [ok |-> FALSE, rows |-> 0])
  /\ fileIdx' = fileIdx + 1
  /\ UNCHANGED <<args, files_to_process, run, pc, disk, counter, metadata_records,
                 total_rows, records, task, log, owners, disk0, output_dir_created,
                 written, sink, namev>>

\* process_file returns Err in single-input mode: `?` makes main return it (line 228)
ProcessFileErrSingle ==
  /\ pc = "next" /\ mode = "file" /\ fileIdx <= Len(input)
  /\ Validate(CurrentTable) # "ok"
  /\ results' = Append(results, [ok |-> FALSE, rows |-> 0])
  /\ pc' = "failed"
  /\ UNCHANGED <<args, files_to_process, run, fileIdx, disk, counter, metadata_records,
                 total_rows, records, task, errlog, log, owners, disk0, output_dir_created,
                 written, sink, namev>>

\* the table is valid: filter_map collects the records, the row tasks are queued
ProcessFileBegin ==
  /\ pc = "next" /\ fileIdx <= Len(input)
  /\ Validate(CurrentTable) = "ok"
  /\ records' = FilterRows(CurrentTable.rows)
  /\ task' = [i \in DOMAIN records' |-> QueuedTask(records'[i])]
  /\ pc' = "rows"
  /\ UNCHANGED <<args, files_to_process, run, fileIdx, disk, counter, metadata_records,
                 total_rows, errlog, results, log, owners, disk0, output_dir_created,
                 written, sink, namev>>

\* write_file lines 108-125, candidate free: the target is the candidate
ResolveFree(i) ==
  /\ pc = "rows" /\ task[i].pc = "queued"
  /\ Cardinality(InFlight) < threads
  /\ ~Exists(disk, task[i].target)
  /\ task' = [task EXCEPT ![i].pc = "create"]
  /\ UNCHANGED <<args, files_to_process, run, pc, fileIdx, disk, counter,
                 metadata_records, total_rows, records, errlog, results, log,
                 owners, disk0, output_dir_created,
                 written, sink, namev>>

\* mutant: the renamed target is built from a plain load of the counter
ResolveCollision_NoIncrement(i) ==
  /\ pc = "rows" /\ task[i].pc = "queued"
  /\ Cardinality(InFlight) < threads
  /\ Exists(disk, task[i].target)
  /\ \E timestamp \in Timestamps :
       task' = [task EXCEPT ![i].pc = "create",
                            ![i].target = RenamedTarget(@, timestamp, counter)]
  /\ UNCHANGED <<args, files_to_process, run, pc, fileIdx, disk, counter,
                 metadata_records, total_rows, records, errlog, results, log,
                 owners, disk0, output_dir_created, written, sink, namev>>

\* write_file lines 108-125, candidate exists: timestamp, fetch_add, renamed target
ResolveCollision(i) ==
  /\ pc = "rows" /\ task[i].pc = "queued"
  /\ Cardinality(InFlight) < threads
  /\ Exists(disk, task[i].target)
  /\ \E timestamp \in Timestamps :
       task' = [task EXCEPT ![i].pc = "create",
                            ![i].target = RenamedTarget(@, timestamp, counter)]
  /\ counter' = counter + 1
  /\ UNCHANGED <<args, files_to_process, run, pc, fileIdx, disk, metadata_records,
                 total_rows, records, errlog, results, log, owners, disk0, output_dir_created,
                 written, sink, namev>>

\* File::create(&target) succeeds (line 127)
Create(i) ==
  /\ pc = "rows" /\ task[i].pc = "create"
  /\ disk' = CreateFile(disk, task[i].target)
  /\ log' = log \cup {[file |-> fileIdx, row |-> i, target |-> task[i].target,
                       payload |-> Unwrap(records[i].bytes),
                       existed |-> Exists(disk, task[i].target)]}
  /\ task' = [task EXCEPT ![i].pc = "write"]
  /\ UNCHANGED <<args, files_to_process, run, pc, fileIdx, counter, metadata_records,
                 total_rows, records, errlog, results, owners, disk0, output_dir_created,
                 written, sink, namev>>

\* File::create fails: the `?` returns Err, the expect of line 184 panics
CreateFail(i) ==
  /\ pc = "rows" /\ task[i].pc = "create"
  /\ task' = [task EXCEPT ![i].pc = "failed"]
  /\ UNCHANGED <<args, files_to_process, run, pc, fileIdx, disk, counter,
                 metadata_records, total_rows, records, errlog, results, log,
                 owners, disk0, output_dir_created,
                 written, sink, namev>>

\* file.write_all(data) succeeds (line 128)
Write(i) ==
  /\ pc = "rows" /\ task[i].pc = "write"
  /\ disk' = WriteAll(disk, task[i].target, Unwrap(records[i].bytes))
  /\ written' = written \cup {<<fileIdx, i>>}
  /\ task' = [task EXCEPT ![i].pc = "done"]
  /\ UNCHANGED <<args, files_to_process, run, pc, fileIdx, counter, metadata_records,
                 total_rows, records, errlog, results, log, owners, disk0, output_dir_created,
                 sink, namev>>

\* write_all fails: the expect of line 184 panics
WriteFail(i) ==
  /\ pc = "rows" /\ task[i].pc = "write"
  /\ task' = [task EXCEPT ![i].pc = "failed"]
  /\ UNCHANGED <<args, files_to_process, run, pc, fileIdx, disk, counter,
                 metadata_records, total_rows, records, errlog, results, log,
                 owners, disk0, output_dir_created,
                 written, sink, namev>>

\* mutant: the records are appended once every file is created, before the
\* payloads are written
Collect_AfterCreate ==
  /\ pc = "rows"
  /\ \A i \in DOMAIN task : task[i].pc \in {"write", "done"}
  /\ metadata_records' = metadata_records \o LocalMetadata
  /\ owners' = owners \o [i \in DOMAIN records |-> <<fileIdx, i>>]
  /\ total_rows' = total_rows + ReturnedCount(CurrentTable)
  /\ results' = Append(results, [ok |-> TRUE, rows |-> ReturnedCount(CurrentTable)])
  /\ fileIdx' = fileIdx + 1
  /\ records' = <<>>
  /\ task' = <<>>
  /\ pc' = "next"
  /\ UNCHANGED <<args, files_to_process, run, disk, counter, errlog, log, disk0, output_dir_created,
                 written, sink, namev>>

\* every row task returned: collect, lock().extend, Ok(num_rows), main adds the rows
Collect ==
  /\ pc = "rows"
  /\ \A i \in DOMAIN task : task[i].pc = "done"
  /\ metadata_records' = metadata_records \o LocalMetadata
  /\ owners' = owners \o [i \in DOMAIN records |-> <<fileIdx, i>>]
  /\ total_rows' = total_rows + ReturnedCount(CurrentTable)
  /\ results' = Append(results, [ok |-> TRUE, rows |-> ReturnedCount(CurrentTable)])
  /\ fileIdx' = fileIdx + 1
  /\ records' = <<>>
  /\ task' = <<>>
  /\ pc' = "next"
  /\ UNCHANGED <<args, files_to_process, run, disk, counter, errlog, log, disk0, output_dir_created,
                 written, sink, namev>>

\* a row task panicked: rayon re-raises the panic once the tasks have ended and
\* the unwinding leaves process_file and main
Panic ==
  /\ pc = "rows"
  /\ \A i \in DOMAIN task : Terminated(i)
  /\ \E i \in DOMAIN task : task[i].pc = "failed"
  /\ pc' = "panicked"
  /\ UNCHANGED <<args, files_to_process, run, fileIdx, disk, counter, metadata_records,
                 total_rows, records, task, errlog, results, log, owners,
                 disk0, output_dir_created,
                 written, sink, namev>>

\* mutant: the metadata file is written even when there is no record
SinkAfter_NoEmptyCheck(path, recs, old) ==
  IF IsSome(path) THEN Some(recs) ELSE old

\* the metadata file after lines 271-298: written when a path was given and
\* there is at least one record, with every record in order
SinkAfter(path, recs, old) ==
  IF IsSome(path) /\ recs # <<>> THEN Some(recs) ELSE old

\* no file is left: the total is printed, the metadata is written, "Done!", Ok(())
Finish ==
  /\ pc = "next" /\ fileIdx > Len(input)
  /\ sink' = SinkAfter(metadata_file, metadata_records, sink)
  /\ pc' = "done"
  /\ UNCHANGED <<args, files_to_process, run, fileIdx, disk, counter, metadata_records,
                 total_rows, records, task, errlog, results, log, owners,
                 disk0, output_dir_created, written, namev>>

\* File::create of the metadata file fails and `?` returns the error from main
\* (lines 290-295): no metadata file is created
CreateMetadataFail ==
  /\ pc = "next" /\ fileIdx > Len(input)
  /\ IsSome(metadata_file) /\ metadata_records # <<>>
  /\ pc' = "err_metadata"
  /\ UNCHANGED <<args, files_to_process, run, fileIdx, disk, counter, metadata_records,
                 total_rows, records, task, errlog, results, log, owners,
                 disk0, output_dir_created, written, sink, namev>>

\* a second process is started on the same input and output directory once the
\* first has exited normally: the statics and locals of main start afresh
Rerun ==
  /\ pc = "done" /\ run < MaxRuns
  /\ run' = run + 1
  /\ pc' = "start"
  /\ files_to_process' = <<>>
  /\ fileIdx' = 1
  /\ counter' = 0
  /\ metadata_records' = <<>>
  /\ owners' = <<>>
  /\ total_rows' = 0
  /\ errlog' = <<>>
  /\ results' = <<>>
  /\ log' = {}
  /\ disk0' = disk
  /\ written' = {}
  /\ UNCHANGED <<args, disk, records, task, sink, output_dir_created, namev>>

Next ==
  \/ ExitNoInput
  \/ ExitNotFile
  \/ ExitNotDir
  \/ CreateOutputDirFail
  \/ OpenInput
  \/ ListDirectory
  \/ ProcessFileErrDir
  \/ ProcessFileErrSingle
  \/ ProcessFileBegin
  \/ \E i \in DOMAIN task : ResolveFree(i)
  \/ \E i \in DOMAIN task : ResolveCollision(i)
  \/ \E i \in DOMAIN task : Create(i)
  \/ \E i \in DOMAIN task : CreateFail(i)
  \/ \E i \in DOMAIN task : Write(i)
  \/ \E i \in DOMAIN task : WriteFail(i)
  \/ Collect
  \/ Panic
  \/ Finish
  \/ CreateMetadataFail

Spec == Init /\ [][Next]_vars

\* the batch loop of main over every kind of command line and directory entry
SpecMain == InitMain /\ [][Next]_vars

\* the extraction engine started on an empty or on a populated output directory
SpecCollide == InitCollide /\ [][Next]_vars

\* two runs in sequence on the same input and output directory
NextRerun == Next \/ Rerun
SpecRerun == Init /\ [][NextRerun]_vars

\* ------------------------------------------------- file-name derivation
\* A file name is a sequence of characters.  "." and ".." are not file names
\* (Path::file_name yields None for them).
NameChars == {"a", "b", "."}
FileNames == {n \in SeqsUpTo(NameChars, MaxNameLen) :
                n # <<>> /\ n # <<".">> /\ n # <<".", ".">>}

\* index of the last '.' of n, 0 when there is none
LastDot(n) == LET dots == {i \in DOMAIN n : n[i] = "."}
              IN  IF dots = {} THEN 0 ELSE CHOOSE i \in dots : \A j \in dots : j <= i

\* Path::file_stem: the name up to the last '.', the whole name when it has no
\* '.' or only a leading one
FileStem(n) == IF LastDot(n) <= 1 THEN Some(n)
               ELSE Some(SubSeq(n, 1, LastDot(n) - 1))

\* Path::extension: what follows the last '.', None when the name has no '.' or
\* only a leading one
Extension(n) == IF LastDot(n) <= 1 THEN None
                ELSE Some(SubSeq(n, LastDot(n) + 1, Len(n)))

\* unwrap_or_default
UnwrapOrDefault(o) == IF IsSome(o) THEN Unwrap(o) ELSE <<>>

\* format!("{}.{}", file_stem, extension) (lines 173-180)
AudioFilenameChars(n) ==
  UnwrapOrDefault(FileStem(n)) \o <<".">> \o UnwrapOrDefault(Extension(n))

InitName ==
  /\ mode = "file" /\ inputOk = TRUE /\ format = "Parquet" /\ threads = 1
  /\ metadata_file = None /\ entries = <<>> /\ files_to_process = <<>>
  /\ run = 1 /\ pc = "name" /\ fileIdx = 1 /\ disk = <<>> /\ disk0 = <<>>
  /\ output_dir_created = TRUE
  /\ counter = 0 /\ metadata_records = <<>> /\ owners = <<>> /\ total_rows = 0
  /\ records = <<>> /\ task = <<>> /\ errlog = <<>> /\ results = <<>>
  /\ log = {} /\ written = {} /\ sink = None
  /\ src_name \in FileNames
  /\ derived = None

\* the map closure derives the output name of one row (lines 172-180)
DeriveName ==
  /\ pc = "name" /\ derived = None
  /\ derived' = Some(AudioFilenameChars(src_name))
  /\ UNCHANGED <<args, files_to_process, run, pc, fileIdx, disk, counter,
                 metadata_records, total_rows, records, task, errlog, results, log,
                 owners, disk0, output_dir_created, written, sink, src_name>>

NextName == DeriveName
SpecName == InitName /\ [][NextName]_vars

\* ================================================================ claims
\* "All required fields non-null", stated on the input row itself
AllPresent(r) == r.path # None /\ r.bytes # None /\ r.transcription # None
PresentCount(rows) == Cardinality({i \in DOMAIN rows : AllPresent(rows[i])})
FieldsInvalid(t) == ~t.decoded \/ \E c \in {"path", "bytes", "transcription"} :
                                     t.columns[c] # "ok"
OkFiles == {f \in DOMAIN results : results[f].ok}
ErrFiles == {f \in DOMAIN results : ~results[f].ok}
RECURSIVE SumOver(_, _)
SumOver(F, S) == IF S = {} THEN 0
                 ELSE LET f == CHOOSE x \in S : TRUE IN F[f] + SumOver(F, S \ {f})
OwnersOf(f) == {k \in DOMAIN owners : owners[k][1] = f}
Candidate(e) == Join(Parent(e.target), BareName(FileName(e.target).base))
SameCandidate(e) == {g \in log : Candidate(g) = Candidate(e)}
Renamed(e) == FileName(e.target).prefix # <<>>

\* C1: no File::create of write_file hits a path that already holds a file
\* (one that was there before the run, or one written earlier in the run).
C1_NoWriteToExistingPath == \A e \in log : ~e.existed

\* C2: at the end of a run, the rows that share a candidate name (free when the
\* run started) have pairwise distinct targets, exactly one of them is the
\* candidate itself and the others are renamed and keep the basename.
C2_CollidingTargetsDistinct ==
  pc = "done" =>
    \A e \in log :
      ~Exists(disk0, Candidate(e)) =>
        /\ \A g, h \in SameCandidate(e) : g # h => g.target # h.target
        /\ Cardinality({g \in SameCandidate(e) : g.target = Candidate(e)}) = 1
        /\ \A g \in SameCandidate(e) : g.target # Candidate(e) => Renamed(g)

\* C3: after a finished run the file at the target of every extracted row holds
\* exactly that row's payload.
C3_RoundTrip ==
  pc = "done" =>
    \A e \in log : e.file \in OkFiles =>
      Exists(disk, e.target) /\ disk[e.target] = e.payload

\* C4: a filesystem failure of one row never stops the run.
C4_WriteFailureDoesNotStopRun == pc # "panicked"

\* C5: the metadata list holds exactly one record per row with all three fields
\* present of every file processed successfully so far, and none for other files.
C5_MetadataCount ==
  /\ Len(metadata_records) =
       SumOver([f \in OkFiles |-> PresentCount(input[f].rows)], OkFiles)
  /\ Len(owners) = Len(metadata_records)
  /\ \A j, k \in DOMAIN owners : j # k => owners[j] # owners[k]
  /\ \A k \in DOMAIN owners : owners[k][1] \in OkFiles
  /\ \A f \in OkFiles : Cardinality(OwnersOf(f)) = PresentCount(input[f].rows)

C5_Witness ==
  /\ pc = "done" /\ Len(results) = 2 /\ OkFiles = {1, 2}
  /\ Len(metadata_records) >= 1
  /\ \E f \in OkFiles : PresentCount(input[f].rows) < Len(input[f].rows)

\* C6: after a finished run every extracted row has a file of its own and exactly
\* one metadata record, whose file_name is the file name of the row's target.
C6_OneFileOneRecordPerRow ==
  pc = "done" =>
    \A e \in log : e.file \in OkFiles =>
      /\ Exists(disk, e.target)
      /\ \A g \in log : g.target = e.target => g = e
      /\ \E k \in DOMAIN owners :
           /\ owners[k] = <<e.file, e.row>>
           /\ metadata_records[k][1] = FileName(e.target)
           /\ \A j \in DOMAIN owners : owners[j] = owners[k] => j = k

\* C7: the count process_file returns is the number of rows with all three
\* fields present, which is the number of records the call appended.
C7_ReturnsPresentRows ==
  \A f \in OkFiles :
    /\ results[f].rows = PresentCount(input[f].rows)
    /\ results[f].rows = Cardinality(OwnersOf(f))

\* C8: in directory mode a file whose process_file failed is logged once, adds
\* nothing to the total, to the metadata or to the disk, and does not end the
\* loop: the total is the sum of the returned counts and, at completion, every
\* file has been handled, the valid ones in full.
C8_PerFileIsolation ==
  mode = "dir" =>
    /\ pc # "failed"
    /\ total_rows = SumOver([f \in OkFiles |-> results[f].rows], OkFiles)
    /\ \A f \in ErrFiles :
         /\ Cardinality({k \in DOMAIN errlog : errlog[k] = f}) = 1
         /\ OwnersOf(f) = {}
         /\ \A e \in log : e.file # f
    /\ \A k \in DOMAIN errlog : errlog[k] \in ErrFiles
    /\ pc = "done" =>
         /\ Len(results) = Len(input)
         /\ \A f \in DOMAIN input :
              ~FieldsInvalid(input[f]) =>
                /\ f \in OkFiles
                /\ Cardinality(OwnersOf(f)) = PresentCount(input[f].rows)
                /\ Cardinality({e \in log : e.file = f}) = PresentCount(input[f].rows)

C8_Witness ==
  /\ mode = "dir" /\ pc = "done"
  /\ Len(errlog) = 1 /\ 1 \in ErrFiles
  /\ 2 \in OkFiles /\ results[2].rows > 0 /\ OwnersOf(2) # {}
  /\ total_rows = results[2].rows

\* C9: in a second run on the same input and output directory every file of the
\* first run keeps its content, and every row whose candidate exists from the
\* first run is written under a renamed target.
C9_RerunKeepsFirstRunFiles ==
  run = 2 =>
    /\ \A p \in DOMAIN disk0 : Exists(disk, p) /\ disk[p] = disk0[p]
    /\ \A e \in log : Exists(disk0, Candidate(e)) => Renamed(e)

\* C10: a table with an absent or wrongly typed required field makes process_file
\* return an error with no file written and no metadata record appended for it.
C10_InvalidTableWritesNothing ==
  /\ pc = "rows" => ~FieldsInvalid(CurrentTable)
  /\ \A f \in DOMAIN results :
       FieldsInvalid(input[f]) =>
         /\ ~results[f].ok
         /\ \A e \in log : e.file # f
         /\ OwnersOf(f) = {}

C10_Witness ==
  /\ Len(results) >= 1 /\ 1 \in ErrFiles
  /\ input[1].decoded /\ input[1].columns.bytes = "wrong_type"
  /\ AllPresent(input[1].rows[1])
  /\ disk = disk0 /\ metadata_records = <<>>

\* ---------------------------------------------------------------- C11..C18
InputInvalid == mode = "none" \/ ~inputOk
Handed == {files_to_process[k] : k \in DOMAIN files_to_process}
ExtensionOf(f) == IF f = "Parquet" THEN "parquet" ELSE "arrow"
RenamedClaims ==
  {<<e.file, e.row, FileName(e.target).prefix>> : e \in {g \in log : Renamed(g)}}
  \cup {<<fileIdx, i, FileName(task[i].target).prefix>> :
          i \in {j \in DOMAIN task : FileName(task[j].target).prefix # <<>>}}
RECURSIVE ExpectedRows(_)
ExpectedRows(n) ==
  IF n = 0 THEN <<>>
  ELSE ExpectedRows(n - 1)
       \o (IF results[n].ok THEN SelectSeq(input[n].rows, AllPresent) ELSE <<>>)

\* C11: with no input, an input that is not a regular file or an input directory
\* that is not a directory, main only exits with status 1: no file is handed to
\* process_file, nothing is written to the output directory, no metadata exists.
C11_InvalidInputExitsBeforeWork ==
  /\ InputInvalid =>
       /\ pc \in {"start", "exit1", "err_output_dir"}
       /\ files_to_process = <<>> /\ results = <<>> /\ task = <<>>
       /\ log = {} /\ disk = disk0
       /\ metadata_records = <<>> /\ sink = None
  /\ pc = "exit1" => InputInvalid
  /\ mode = "none" => pc \in {"start", "exit1"} /\ ~output_dir_created

C11_Witness ==
  /\ pc = "exit1" /\ mode = "file" /\ ~inputOk
  /\ entries[1].table = GoodTable(<<RowA>>)
  /\ IsSome(metadata_file)

\* C12: the counter grows by exactly one in a step that resolves one collision
\* and is unchanged in every other step (a write to a free candidate included),
\* and the renamed names of a run carry pairwise different counter values, all
\* below the counter.
C12_CounterStep ==
  \/ /\ counter' = counter
     /\ \A i \in DOMAIN task :
          (i \in DOMAIN task' /\ task[i].pc = "queued" /\ task'[i].pc = "create")
            => task'[i].target = task[i].target /\ ~Exists(disk, task[i].target)
  \/ /\ counter' = counter + 1
     /\ \E i \in DOMAIN task :
          /\ task[i].pc = "queued" /\ Exists(disk, task[i].target)
          /\ task'[i].pc = "create"
          /\ FileName(task'[i].target).prefix[2] = counter
          /\ \A j \in DOMAIN task \ {i} : task'[j] = task[j]
C12_DistinctCounters ==
  \A c, d \in RenamedClaims :
    /\ c[3][2] < counter
    /\ (c[1] # d[1] \/ c[2] # d[2]) => c[3][2] # d[3][2]
C12_CounterOncePerCollision == []C12_DistinctCounters /\ [][C12_CounterStep]_vars

C12_Witness ==
  \E e, g \in log :
    /\ e # g /\ Renamed(e) /\ Renamed(g)
    /\ FileName(e.target).prefix[1] = FileName(g.target).prefix[1]
    /\ FileName(e.target).prefix[2] # FileName(g.target).prefix[2]
    /\ Exists(disk0, Candidate(e))

\* C13: every record in the metadata list belongs to a row whose File::create
\* and write_all have both returned.
C13_RecordAfterWrite ==
  \A k \in DOMAIN owners :
    /\ owners[k] \in written
    /\ \E e \in log : <<e.file, e.row>> = owners[k] /\ Exists(disk, e.target)

C13_Witness ==
  /\ pc = "rows" /\ metadata_records # <<>>
  /\ \E i \in DOMAIN task : task[i].pc = "write"

\* C14: the name derived for a row is the file name of its source path.
C14_DerivedNameIsBasename == IsSome(derived) => Unwrap(derived) = src_name

\* C15: in directory mode the entries handed to process_file are exactly the
\* regular files whose extension is the one of the selected format.
C15_OnlyFormatExtension ==
  (mode = "dir" /\ pc \notin {"start", "exit1"}) =>
    \A k \in DOMAIN entries :
      k \in Handed <=> (entries[k].is_file /\ entries[k].ext = ExtensionOf(format))

\* C16: the metadata file exists only once every file has been processed, only
\* when a path was given and there is a record, and it then holds every record;
\* a finished run with a path and a record has written it.
C16_SinkOnlyAtEndWhenNonEmpty ==
  /\ IsSome(sink) =>
       /\ pc = "done" /\ Len(results) = Len(input)
       /\ IsSome(metadata_file) /\ metadata_records # <<>>
       /\ Unwrap(sink) = metadata_records
  /\ (pc = "done" /\ IsSome(metadata_file) /\ metadata_records # <<>>) => IsSome(sink)

C16_Witness ==
  /\ pc = "done" /\ IsSome(sink) /\ Len(Unwrap(sink)) = 2
  /\ Len(results) = 2

\* C17: the metadata list is, whatever the interleaving of the row tasks, the
\* rows with all fields present of the successfully processed files, file after
\* file in processing order and row after row in table order.
C17_MetadataInRowOrder ==
  LET exp == ExpectedRows(Len(results))
  IN  /\ Len(metadata_records) = Len(exp)
      /\ \A k \in DOMAIN exp :
           /\ metadata_records[k][2] = Unwrap(exp[k].transcription)
           /\ metadata_records[k][1].base = FileName(Unwrap(exp[k].path))

C17_Witness ==
  /\ pc = "done" /\ Len(metadata_records) = 2
  /\ metadata_records[1][2] = "hi" /\ metadata_records[2][2] = "bye"
  /\ metadata_records[1][1].prefix # <<>> /\ metadata_records[2][1].prefix = <<>>

\* C18: a failure of process_file in single-input mode makes main return at
\* once, with no metadata file and no normal completion; in directory mode the
\* failure is logged and main does not return it.
C18_SingleInputFailureNotIsolated ==
  /\ (mode = "file" /\ ErrFiles # {}) => pc = "failed" /\ sink = None
  /\ pc = "failed" => mode = "file" /\ ErrFiles # {} /\ errlog = <<>>
  /\ (mode = "dir" /\ ErrFiles # {}) =>
       /\ pc \in {"next", "rows", "done", "panicked", "err_metadata"}
       /\ \A f \in ErrFiles : \E k \in DOMAIN errlog : errlog[k] = f

C18_Witness ==
  /\ pc = "failed" /\ mode = "file" /\ ErrFiles # {}
  /\ IsSome(metadata_file) /\ sink = None

====
